---------------------------- MODULE Spec2Model ----------------------------
(***************************************************************************)
(* Model of scripts/create_icons.py: the rasterizer (create_base_icon),    *)
(* the two icon packers (create_ico, create_icns), the flat PNG writer     *)
(* (create_png), the output-directory resolution and the driver            *)
(* (__main__).                                                             *)
(*                                                                         *)
(* Bytes are integers 0..255, byte strings and text strings are sequences  *)
(* of them (text: code points).  A path is a pair <<directory, name>>.     *)
(* Calls into the imaging library are modelled by what the library does on *)
(* the values the script hands it: Image.new rejects a negative size, the  *)
(* PNG encoder rejects an empty image, the ICO writer keeps the sorted,    *)
(* de-duplicated sizes that fit into the image save() was called on.       *)
(* Compressed pixel data is abstracted to a short byte string that is a    *)
(* function of the bitmap.                                                 *)
(***************************************************************************)
EXTENDS Integers, Sequences, FiniteSets, TLC

VARIABLES pc, argv, output_dir, dirs, files, stdout, trace, run, prev, input

vars == <<pc, argv, output_dir, dirs, files, stdout, trace, run, prev, input>>

\* ------------------------------------------------------------- bounds
\* Longest (size, code) table drawn as packer input, besides the fixed table.
MaxEntries == 2
\* Longest size list drawn as Windows-icon packer input.
MaxIcoSizes == 3
\* Most command-line arguments after the script name.
MaxArgs == 2
\* Driver runs in a row on the same file system.
MaxRuns == 2
\* One abstract byte of pixel data per PixelBlock pixels of width.
PixelBlock == 16

\* ------------------------------------------------- program constants
GRADIENT_ITERATIONS == 10
DEFAULT_ICON_SIZE == 512

\* ------------------------------------------------------------ helpers
Max(a, b) == IF a >= b THEN a ELSE b

RECURSIVE Concat(_)
Concat(ss) == IF ss = <<>> THEN <<>> ELSE Head(ss) \o Concat(Tail(ss))

SeqsUpTo(S, n) == UNION {[1..k -> S] : k \in 0..n}

\* struct.pack('>I', n): four bytes, most significant first.
U32BE(n) ==
    <<(n \div 16777216) % 256, (n \div 65536) % 256, (n \div 256) % 256, n % 256>>

\* struct.pack raises struct.error outside 0 .. 2^32 - 1 (2^16 * 2^16 - 1).
FitsU32(n) == n >= 0 /\ n \div 65536 < 65536

\* The imaging library's o16 / o32 / o8: little-endian fields of the ICO file.
U16LE(n) == <<n % 256, (n \div 256) % 256>>
U32LE(n) ==
    <<n % 256, (n \div 256) % 256, (n \div 65536) % 256, (n \div 16777216) % 256>>

\* code.encode('ascii'): the code points themselves, UnicodeEncodeError above 127.
AsciiEncodable(code) == \A i \in 1..Len(code) : code[i] < 128
EncodeAscii(code) == code

\* ---------------------------------------------------------- rasterizer
\* create_base_icon(size): Image.new raises ValueError for a negative size;
\* otherwise a size x size RGBA bitmap carrying the ten gradient circles and
\* either the snake (size >= 32) or the plain rectangle.
create_base_icon(size) ==
    IF size < 0 THEN [err |-> "ValueError"]
    ELSE LET center == size \div 2
         IN  [err |-> "none", width |-> size, height |-> size, drawn |-> size,
              center |-> center,
              circles |-> [i \in 0..(GRADIENT_ITERATIONS - 1) |-> Max(1, center - i * 2)],
              shape |-> IF size >= 32 THEN "snake" ELSE "rect",
              snake_width |-> IF size >= 32 THEN Max(2, size \div 8) ELSE 0,
              eye_size |-> IF size >= 32 THEN Max(1, size \div 20) ELSE 0,
              margin |-> IF size >= 32 THEN 0 ELSE size \div 4]

\* --------------------------------------------------------- PNG encoding
PNG_SIGNATURE == <<137, 80, 78, 71, 13, 10, 26, 10>>
IHDR_TAG == <<73, 72, 68, 82>>

\* The compressed pixel data, abstracted: its length grows with the width and
\* its bytes depend on what was drawn.
PixelData(img) ==
    [i \in 1..((img.width \div PixelBlock) + 1) |->
        (img.center + img.snake_width + img.margin + i) % 256]

\* img.save(buffer, format='PNG'): the signature, the IHDR chunk with the
\* width and height, then the pixel data.  The encoder refuses an empty image.
PngEncodable(img) == img.width > 0 /\ img.height > 0
PngEncode(img) ==
    PNG_SIGNATURE \o U32BE(13) \o IHDR_TAG \o U32BE(img.width) \o U32BE(img.height)
        \o <<8, 6, 0, 0, 0>> \o PixelData(img)


\* ------------------------------------------------- Apple-icon packer
ICNS_MAGIC == <<105, 99, 110, 115>>

\* Mutant of icns_sizes: the table keyed by size, so that a later entry of the
\* same size replaces the earlier one.
icns_sizes_by_size ==
    << <<16,   <<105, 99, 48, 52>> >>,
       <<32,   <<105, 99, 49, 49>> >>,
       <<64,   <<105, 99, 49, 50>> >>,
       <<128,  <<105, 99, 48, 55>> >>,
       <<256,  <<105, 99, 49, 51>> >>,
       <<512,  <<105, 99, 49, 52>> >>,
       <<1024, <<105, 99, 49, 48>> >> >>

\* The fixed table of create_icns: (size, code), codes 'ic04' .. 'ic14'.
icns_sizes ==
    << <<16,   <<105, 99, 48, 52>> >>,
       <<32,   <<105, 99, 48, 53>> >>,
       <<64,   <<105, 99, 48, 54>> >>,
       <<128,  <<105, 99, 48, 55>> >>,
       <<256,  <<105, 99, 48, 56>> >>,
       <<512,  <<105, 99, 48, 57>> >>,
       <<1024, <<105, 99, 49, 48>> >>,
       <<32,   <<105, 99, 49, 49>> >>,
       <<64,   <<105, 99, 49, 50>> >>,
       <<256,  <<105, 99, 49, 51>> >>,
       <<512,  <<105, 99, 49, 52>> >> >>

\* Mutant of IcnsElement: the length field counts the payload only.
IcnsElementPayloadOnly(code, png_data) ==
    EncodeAscii(code) \o U32BE(Len(png_data)) \o png_data

\* element = code.encode('ascii') + struct.pack('>I', len(png_data) + 8) + png_data
IcnsElement(code, png_data) ==
    EncodeAscii(code) \o U32BE(Len(png_data) + 8) \o png_data

\* Mutant of EntryError: the packer validates the code's length first.
EntryErrorValidating(size, code) ==
    LET img == create_base_icon(size)
    IN  IF Len(code) # 4 THEN "ValueError"
        ELSE IF img.err # "none" THEN img.err
        ELSE IF ~PngEncodable(img) THEN "SystemError"
        ELSE IF ~AsciiEncodable(code) THEN "UnicodeEncodeError"
        ELSE "none"

\* The first exception one pass of the loop body raises for (size, code), in
\* statement order: rasterize, encode as PNG, encode the code, pack the length.
EntryError(size, code) ==
    LET img == create_base_icon(size)
    IN  IF img.err # "none" THEN img.err
        ELSE IF ~PngEncodable(img) THEN "SystemError"
        ELSE IF ~AsciiEncodable(code) THEN "UnicodeEncodeError"
        ELSE IF ~FitsU32(Len(PngEncode(img)) + 8) THEN "struct.error"
        ELSE "none"

\* The loop over the table: temp_data grows by one element per entry, the
\* first exception ends the loop.
RECURSIVE IcnsLoop(_, _)
IcnsLoop(table, temp_data) ==
    IF table = <<>> THEN [err |-> "none", temp_data |-> temp_data]
    ELSE LET size == Head(table)[1]
             code == Head(table)[2]
             e    == EntryError(size, code)
         IN  IF e # "none" THEN [err |-> e, temp_data |-> temp_data]
             ELSE IcnsLoop(Tail(table),
                           temp_data \o IcnsElement(code, PngEncode(create_base_icon(size))))

\* Mutant of TotalSize: the outer header's own 8 bytes are forgotten.
TotalSizeNoHeader(temp_data) == Len(temp_data)

\* total_size = len(temp_data) + 8
TotalSize(temp_data) == Len(temp_data) + 8

\* The bytes create_icns hands to f.write for a table, or the exception that
\* ends it before the file is opened.
IcnsBlob(table) ==
    LET r == IcnsLoop(table, <<>>)
    IN  IF r.err # "none" THEN [err |-> r.err, blob |-> <<>>]
        ELSE IF ~FitsU32(TotalSize(r.temp_data)) THEN [err |-> "struct.error", blob |-> <<>>]
        ELSE [err |-> "none",
              blob |-> ICNS_MAGIC \o U32BE(TotalSize(r.temp_data)) \o r.temp_data]

\* ----------------------------------------------- Windows-icon packer
\* sizes = [16, 32, 48, 64, 128, 256]
ico_sizes == <<16, 32, 48, 64, 128, 256>>

RECURSIVE SortedSeq(_)
SortedSeq(S) ==
    IF S = {} THEN <<>>
    ELSE LET m == CHOOSE x \in S : \A y \in S : x <= y
         IN  <<m>> \o SortedSeq(S \ {m})

\* Image.thumbnail: shrinks to fit, never enlarges.
Thumbnail(img, s) ==
    IF s >= img.width THEN img ELSE [img EXCEPT !.width = s, !.height = s]

\* The ICO writer's choice of frame for one size: the first provided image of
\* exactly that size, else a thumbnail of the last provided image.
IcoFrame(provided_ims, s) ==
    LET hits == {i \in 1..Len(provided_ims) :
                    provided_ims[i].width = s /\ provided_ims[i].height = s}
    IN  IF hits # {} THEN provided_ims[CHOOSE i \in hits : \A j \in hits : i <= j]
        ELSE Thumbnail(provided_ims[Len(provided_ims)], s)

\* The ICO writer's frames: sorted(set(sizes)), without the sizes larger than
\* the image save() was called on or larger than 256.
IcoFrames(im, sizes, append_images) ==
    LET provided_ims == <<im>> \o append_images
        wanted == {sizes[i] : i \in 1..Len(sizes)}
        kept   == {s \in wanted : s <= im.width /\ s <= im.height /\ s <= 256}
        order  == SortedSeq(kept)
    IN  [k \in 1..Len(order) |-> IcoFrame(provided_ims, order[k])]

\* One 16-byte directory entry: width, height (0 stands for 256), colours,
\* reserved, planes, 32 bits per pixel, payload length, payload offset.
IcoDirEntry(frame, bytes_len, offset) ==
    <<IF frame.width < 256 THEN frame.width ELSE 0,
      IF frame.height < 256 THEN frame.height ELSE 0, 0, 0, 0, 0>>
        \o U16LE(32) \o U32LE(bytes_len) \o U32LE(offset)

RECURSIVE IcoDirectory(_, _)
IcoDirectory(frames, offset) ==
    IF frames = <<>> THEN <<>>
    ELSE LET n == Len(PngEncode(Head(frames)))
         IN  IcoDirEntry(Head(frames), n, offset) \o IcoDirectory(Tail(frames), offset + n)

\* images[0].save(path, format='ICO', sizes=..., append_images=images[1:]):
\* magic, frame count, directory, then the PNG payloads in directory order.
IcoSave(im, sizes, append_images) ==
    LET frames == IcoFrames(im, sizes, append_images)
    IN  IF \E k \in 1..Len(frames) : ~PngEncodable(frames[k])
        THEN [err |-> "SystemError", blob |-> <<>>]
        ELSE [err |-> "none",
              blob |-> <<0, 0, 1, 0>> \o U16LE(Len(frames))
                         \o IcoDirectory(frames, 6 + 16 * Len(frames))
                         \o Concat([k \in 1..Len(frames) |-> PngEncode(frames[k])])]

\* Mutant of IcoBlob: an empty list is tolerated and an empty container saved.
IcoBlobEmptyOk(sizes) ==
    LET images == [i \in 1..Len(sizes) |-> create_base_icon(sizes[i])]
    IN  IF \E i \in 1..Len(images) : images[i].err # "none"
        THEN [err |-> "ValueError", blob |-> <<>>]
        ELSE IF images = <<>> THEN [err |-> "none", blob |-> <<0, 0, 1, 0, 0, 0>>]
        ELSE IcoSave(images[1], sizes, Tail(images))

\* The body of create_ico for a size list: rasterize every size, then save
\* from images[0] (IndexError on an empty list) with the rest appended.
IcoBlob(sizes) ==
    LET images == [i \in 1..Len(sizes) |-> create_base_icon(sizes[i])]
    IN  IF \E i \in 1..Len(images) : images[i].err # "none"
        THEN [err |-> "ValueError", blob |-> <<>>]
        ELSE IF images = <<>> THEN [err |-> "IndexError", blob |-> <<>>]
        ELSE IcoSave(images[1], sizes, Tail(images))

\* create_png: one bitmap of DEFAULT_ICON_SIZE, PNG-encoded.
PngBlob(size) ==
    LET img == create_base_icon(size)
    IN  IF img.err # "none" THEN [err |-> img.err, blob |-> <<>>]
        ELSE IF ~PngEncodable(img) THEN [err |-> "SystemError", blob |-> <<>>]
        ELSE [err |-> "none", blob |-> PngEncode(img)]


\* --------------------------------------------------------- file system
\* os.path.join(project_root, 'assets'), the default of get_output_directory.
DefaultDir == "assets"
AllDirs == {"assets", "out"}
Names == {"icon.ico", "icon.icns", "icon.png"}
Paths == AllDirs \X Names

NoFile == [exists |-> FALSE, data |-> <<>>]
Stale == [exists |-> TRUE, data |-> <<0>>]
Unset == "unset"
NoPrev == [valid |-> FALSE, dir |-> Unset, ico |-> NoFile, icns |-> NoFile, png |-> NoFile]

\* Mutant of IcnsPath: the Windows icon's file name pasted into create_icns's path.
IcnsPathPasted(dir) == <<dir, "icon.ico">>

\* os.path.join(output_dir, name)
IcoPath(dir) == <<dir, "icon.ico">>
IcnsPath(dir) == <<dir, "icon.icns">>
PngPath(dir) == <<dir, "icon.png">>

\* os.makedirs(output_dir, exist_ok=True)
MakeDirs(ds, d) == ds \cup {d}

\* Mutant of WriteFile: the file is opened for appending.
WriteFileAppend(fs, path, data) ==
    [fs EXCEPT ![path] = [exists |-> TRUE, data |-> fs[path].data \o data]]

\* open(path, 'wb') then write, and the library's save(path): the file holds
\* exactly the bytes written, whatever it held before.
WriteFile(fs, path, data) == [fs EXCEPT ![path] = [exists |-> TRUE, data |-> data]]

\* A write that fails part-way leaves the bytes written so far.
Partial(data) == SubSeq(data, 1, Len(data) \div 2)

\* What the run did, in order: calls, makedirs, file writes, and the exception
\* (what) that ended it.
Event(op, by, path, what) == [op |-> op, by |-> by, path |-> path, what |-> what]

\* Mutant of AfterStep: the exception is swallowed and the driver goes on.
AfterStepSwallow(outcome, next) == next

\* An exception nobody catches ends the run; otherwise the next statement runs.
AfterStep(outcome, next) == IF outcome = "ok" THEN next ELSE "aborted"

\* What can happen to one packer call whose bytes are res: its own exception,
\* a failing open (always, in a directory that does not exist), a failing
\* write, a failing print, or success.
Outcomes(res, path) ==
    IF res.err # "none" THEN {"raise"}
    ELSE IF path[1] \notin dirs THEN {"open_error"}
    ELSE {"ok", "open_error", "write_error", "print_error"}

\* One of create_ico, create_icns, create_png on a path: build the bytes,
\* write the file, print the line.
PackerCall(step, res, path, line, next) ==
    \E outcome \in Outcomes(res, path) :
        /\ files' = IF outcome \in {"ok", "print_error"} THEN WriteFile(files, path, res.blob)
                    ELSE IF outcome = "write_error" THEN WriteFile(files, path, Partial(res.blob))
                    ELSE files
        /\ stdout' = IF outcome = "ok" THEN Append(stdout, line) ELSE stdout
        /\ trace' = trace \o <<Event("call", step, path, "")>>
                      \o (IF outcome \in {"ok", "print_error", "write_error"}
                          THEN <<Event("write", step, path, "")>> ELSE <<>>)
                      \o (IF outcome = "ok" THEN <<>>
                          ELSE <<Event("raise", step, path,
                                       IF outcome = "raise" THEN res.err ELSE outcome)>>)
        /\ pc' = AfterStep(outcome, next)

\* ---------------------------------------------------------------- driver
\* Mutant of ChosenDir: the argument is ignored.
ChosenDirDefault(args) == DefaultDir

\* len(sys.argv) > 1: sys.argv[1], created if absent; else get_output_directory().
ChosenDir(args) == IF Len(args) > 0 THEN args[1] ELSE DefaultDir

\* Lines 146-154: resolve the output directory, create it, print the banner.
Resolve ==
    /\ pc = "start"
    /\ \E outcome \in {"ok", "makedirs_error"} :
        LET d == ChosenDir(argv)
        IN  /\ output_dir' = IF outcome = "ok" THEN d ELSE output_dir
            /\ dirs' = IF outcome = "ok" THEN MakeDirs(dirs, d) ELSE dirs
            /\ trace' = trace
                  \o (IF Len(argv) > 0 THEN <<>>
                      ELSE <<Event("call", "get_output_directory", <<DefaultDir, "">>, "")>>)
                  \o <<Event("makedirs", "resolve", <<d, "">>, "")>>
                  \o (IF outcome = "ok" THEN <<>>
                      ELSE <<Event("raise", "resolve", <<d, "">>, outcome)>>)
            /\ stdout' = IF outcome = "ok" THEN stdout \o <<"banner", "rule">> ELSE stdout
            /\ pc' = AfterStep(outcome, "resolved")
    /\ UNCHANGED <<argv, files, run, prev, input>>

\* Line 157: create_ico(os.path.join(output_dir, 'icon.ico'))
CreateIco ==
    /\ pc = "resolved"
    /\ PackerCall("create_ico", IcoBlob(ico_sizes), IcoPath(output_dir),
                  "created_ico", "ico_done")
    /\ UNCHANGED <<argv, output_dir, dirs, run, prev, input>>

\* Line 158: create_icns(os.path.join(output_dir, 'icon.icns'))
CreateIcns ==
    /\ pc = "ico_done"
    /\ PackerCall("create_icns", IcnsBlob(icns_sizes), IcnsPath(output_dir),
                  "created_icns", "icns_done")
    /\ UNCHANGED <<argv, output_dir, dirs, run, prev, input>>

\* Line 159: create_png(os.path.join(output_dir, 'icon.png'))
CreatePng ==
    /\ pc = "icns_done"
    /\ PackerCall("create_png", PngBlob(DEFAULT_ICON_SIZE), PngPath(output_dir),
                  "created_png", "png_done")
    /\ UNCHANGED <<argv, output_dir, dirs, run, prev, input>>

\* Lines 161-163: the closing rule, the success line, the location.
Finish ==
    /\ pc = "png_done"
    /\ stdout' = stdout \o <<"rule", "all_created", "location">>
    /\ pc' = "done"
    /\ UNCHANGED <<argv, output_dir, dirs, files, trace, run, prev, input>>

Snapshot ==
    [valid |-> TRUE, dir |-> output_dir, ico |-> files[IcoPath(output_dir)],
     icns |-> files[IcnsPath(output_dir)], png |-> files[PngPath(output_dir)]]

\* The script is started again with the same arguments on the file system the
\* last run left; prev keeps the output files of a run that completed.
Rerun ==
    /\ pc \in {"done", "aborted"}
    /\ run < MaxRuns
    /\ run' = run + 1
    /\ prev' = IF pc = "done" THEN Snapshot ELSE prev
    /\ pc' = "start"
    /\ output_dir' = Unset
    /\ stdout' = <<>>
    /\ trace' = <<>>
    /\ UNCHANGED <<argv, dirs, files, input>>

DriverInput == [kind |-> "driver", table |-> icns_sizes, sizes |-> ico_sizes]

Init ==
    /\ pc = "start"
    /\ argv \in SeqsUpTo(AllDirs, MaxArgs)
    /\ dirs \in SUBSET AllDirs
    /\ files \in [Paths -> {NoFile, Stale}]
    /\ \A p \in Paths : files[p].exists => p[1] \in dirs
    /\ output_dir = Unset
    /\ stdout = <<>>
    /\ trace = <<>>
    /\ run = 1
    /\ prev = NoPrev
    /\ input = DriverInput

Next == Resolve \/ CreateIco \/ CreateIcns \/ CreatePng \/ Finish \/ Rerun

Spec == Init /\ [][Next]_vars

\* ------------------------------------------------- packers on drawn inputs
\* Sizes and codes the packers are tried on: a negative and a zero size; codes
\* 'ic04' and 'ic11', a 3-character, a 5-character and a non-ASCII code.
PackSizes == {-1, 0, 16, 32}
PackCodes == { <<105, 99, 48, 52>>, <<105, 99, 49, 49>>, <<105, 99, 52>>,
               <<105, 99, 111, 110, 53>>, <<233>> }
IcoPackSizes == {16, 32, 48}

PackInputs ==
    {[kind |-> "icns", table |-> t, sizes |-> <<>>] :
        t \in SeqsUpTo(PackSizes \X PackCodes, MaxEntries) \cup {icns_sizes}}
    \cup {[kind |-> "ico", table |-> <<>>, sizes |-> s] : s \in SeqsUpTo(IcoPackSizes, MaxIcoSizes)}

\* create_icns with input.table in place of its table.
PackIcns ==
    /\ pc = "pack"
    /\ input.kind = "icns"
    /\ PackerCall("create_icns", IcnsBlob(input.table), IcnsPath(output_dir),
                  "created_icns", "packed")
    /\ UNCHANGED <<argv, output_dir, dirs, run, prev, input>>

\* create_ico with input.sizes in place of its size list.
PackIco ==
    /\ pc = "pack"
    /\ input.kind = "ico"
    /\ PackerCall("create_ico", IcoBlob(input.sizes), IcoPath(output_dir),
                  "created_ico", "packed")
    /\ UNCHANGED <<argv, output_dir, dirs, run, prev, input>>

PackInit ==
    /\ pc = "pack"
    /\ input \in PackInputs
    /\ argv = <<>>
    /\ dirs = {DefaultDir}
    /\ files \in [Paths -> {NoFile, Stale}]
    /\ \A p \in Paths : files[p].exists => p = IcnsPath(DefaultDir) \/ p = IcoPath(DefaultDir)
    /\ files[IcnsPath(DefaultDir)] = files[IcoPath(DefaultDir)]
    /\ output_dir = DefaultDir
    /\ stdout = <<>>
    /\ trace = <<>>
    /\ run = 1
    /\ prev = NoPrev

PackNext == PackIcns \/ PackIco

PackSpec == PackInit /\ [][PackNext]_vars


\* ------------------------------------------------------------ observers
\* Readers of the written files, used by the properties below.
ReadU32BE(b, off) ==
    b[off + 1] * 16777216 + b[off + 2] * 65536 + b[off + 3] * 256 + b[off + 4]
ReadU32LE(b, off) ==
    b[off + 1] + b[off + 2] * 256 + b[off + 3] * 65536 + b[off + 4] * 16777216
ReadU16LE(b, off) == b[off + 1] + b[off + 2] * 256

\* Walk the elements of an icns blob from byte offset off, advancing by each
\* element's own length field; ok iff the walk ends exactly at the end.
RECURSIVE IcnsWalk(_, _)
IcnsWalk(blob, off) ==
    IF off = Len(blob) THEN [ok |-> TRUE, elems |-> <<>>]
    ELSE IF off + 8 > Len(blob) THEN [ok |-> FALSE, elems |-> <<>>]
    ELSE LET n == ReadU32BE(blob, off + 4)
         IN  IF n < 8 \/ off + n > Len(blob) THEN [ok |-> FALSE, elems |-> <<>>]
             ELSE LET rest == IcnsWalk(blob, off + n)
                  IN  [ok |-> rest.ok,
                       elems |-> <<[code |-> SubSeq(blob, off + 1, off + 4),
                                    length |-> n,
                                    payload |-> SubSeq(blob, off + 9, off + n)]>>
                                 \o rest.elems]

\* Width and height in the IHDR chunk of a PNG stream.
PngWidth(png) == ReadU32BE(png, 16)
PngHeight(png) == ReadU32BE(png, 20)

\* The directory of an ico blob: per entry the size (0 read as 256) and the
\* payload the entry points at.
IcoEntries(blob) ==
    [k \in 1..ReadU16LE(blob, 4) |->
        LET off == 6 + 16 * (k - 1)
            len == ReadU32LE(blob, off + 8)
            at  == ReadU32LE(blob, off + 12)
        IN  [width |-> IF blob[off + 1] = 0 THEN 256 ELSE blob[off + 1],
             height |-> IF blob[off + 2] = 0 THEN 256 ELSE blob[off + 2],
             payload |-> SubSeq(blob, at + 1, at + len)]]

Events(op) == {i \in 1..Len(trace) : trace[i].op = op}
WritesTo(path) == {i \in Events("write") : trace[i].path = path}
CallsOf(step) == {i \in Events("call") : trace[i].by = step}
RaisedBy(step) == {i \in Events("raise") : trace[i].by = step}
InternalErrors == {"ValueError", "SystemError", "UnicodeEncodeError", "struct.error", "IndexError"}
RaisedInternally == \E i \in Events("raise") : trace[i].what \in InternalErrors
\* The step wrote its file completely (the write itself did not fail).
WroteAll(step) ==
    /\ \E i \in Events("write") : trace[i].by = step
    /\ \A i \in RaisedBy(step) : trace[i].what = "print_error"

RECURSIVE SumSeq(_)
SumSeq(s) == IF s = <<>> THEN 0 ELSE Head(s) + SumSeq(Tail(s))


\* ------------------------------------------------------------ properties
IcnsFile == files[<<output_dir, "icon.icns">>].data
IcoFile == files[<<output_dir, "icon.ico">>].data
PngFile == files[<<output_dir, "icon.png">>].data

\* The payload lengths of a table's entries, plus the 8 header bytes of each.
ElementLengths(table) ==
    [k \in 1..Len(table) |-> 8 + Len(PngEncode(create_base_icon(table[k][1])))]
FourCharCodes(table) == \A k \in 1..Len(table) : Len(table[k][2]) = 4

C2_ElementLayout ==
    (input.kind = "driver" /\ WroteAll("create_icns")) =>
        LET w == IcnsWalk(IcnsFile, 8)
        IN  /\ w.ok
            /\ Len(w.elems) = Len(icns_sizes)
            /\ \A k \in 1..Len(w.elems) :
                  /\ w.elems[k].code = icns_sizes[k][2]
                  /\ w.elems[k].payload = PngEncode(create_base_icon(icns_sizes[k][1]))
                  /\ w.elems[k].length = 8 + Len(w.elems[k].payload)

C2_Witness ==
    /\ input.kind = "driver"
    /\ WroteAll("create_icns")
    /\ Len(IcnsWalk(IcnsFile, 8).elems) = 11

ExpectedCodes ==
    << <<105, 99, 48, 52>>, <<105, 99, 48, 53>>, <<105, 99, 48, 54>>, <<105, 99, 48, 55>>,
       <<105, 99, 48, 56>>, <<105, 99, 48, 57>>, <<105, 99, 49, 48>>, <<105, 99, 49, 49>>,
       <<105, 99, 49, 50>>, <<105, 99, 49, 51>>, <<105, 99, 49, 52>> >>
ExpectedSizes == <<16, 32, 64, 128, 256, 512, 1024, 32, 64, 256, 512>>

\* C3: the blob starts with 'icns' and holds one element per entry of the fixed
\* table in table order: codes ic04 .. ic14, the k-th bitmap of the k-th
\* nominal size (16, 32, 64, 128, 256, 512, 1024, 32, 64, 256, 512).
C3_TableOrder ==
    (input.kind = "driver" /\ WroteAll("create_icns")) =>
        LET w == IcnsWalk(IcnsFile, 8)
        IN  /\ SubSeq(IcnsFile, 1, 4) = <<105, 99, 110, 115>>
            /\ [k \in 1..Len(w.elems) |-> w.elems[k].code] = ExpectedCodes
            /\ [k \in 1..Len(w.elems) |-> PngWidth(w.elems[k].payload)] = ExpectedSizes
            /\ [k \in 1..Len(w.elems) |-> PngHeight(w.elems[k].payload)] = ExpectedSizes

C3_Witness ==
    /\ input.kind = "driver"
    /\ WroteAll("create_icns")
    /\ PngWidth(IcnsWalk(IcnsFile, 8).elems[8].payload) = 32


\* C4 as stated: the icon.ico create_ico writes holds exactly one directory
\* entry per size of [16, 32, 48, 64, 128, 256], in that order, each backed by
\* the bitmap rasterized at that size.
C4_OneEntryPerSize ==
    (input.kind = "driver" /\ WroteAll("create_ico")) =>
        LET es == IcoEntries(IcoFile)
        IN  /\ [k \in 1..Len(es) |-> es[k].width] = <<16, 32, 48, 64, 128, 256>>
            /\ \A k \in 1..Len(es) :
                  es[k].payload = PngEncode(create_base_icon(es[k].width))

\* C5: with an empty size list create_ico ends in an error (IndexError on
\* images[0]) and no icon.ico is written: the file is as it was.
C5_EmptySizeListFails ==
    (input.kind = "ico" /\ input.sizes = <<>> /\ pc # "pack") =>
        /\ pc = "aborted"
        /\ \E i \in RaisedBy("create_ico") : trace[i].what = "IndexError"
        /\ Events("write") = {}
        /\ files[<<output_dir, "icon.ico">>] \in {NoFile, Stale}
        /\ stdout = <<>>

C5_Witness ==
    /\ input.kind = "ico"
    /\ input.sizes = <<>>
    /\ pc = "aborted"
    /\ Len(trace) > 0

WrongLengthCode(table) == \E k \in 1..Len(table) : Len(table[k][2]) # 4
NonPositiveSize(table) == \E k \in 1..Len(table) : table[k][1] <= 0
AllPositiveAscii(table) ==
    \A k \in 1..Len(table) : table[k][1] > 0 /\ AsciiEncodable(table[k][2])

\* The bytes each entry's element takes in the blob.
ElementBytes(table) ==
    [k \in 1..Len(table) |->
        Len(table[k][2]) + 4 + Len(PngEncode(create_base_icon(table[k][1])))]

Steps == <<"create_ico", "create_icns", "create_png">>

\* C8: the steps run in the order create_ico, create_icns, create_png, each at
\* most once; a step that raises ends the run, so no later step runs or writes;
\* the closing success line is printed only after all three have completed.
C8_AbortOnFirstFailure ==
    /\ \A a \in 1..3 : Cardinality(CallsOf(Steps[a])) <= 1
    /\ \A a \in 1..3 : \A b \in 1..3 : a < b =>
          /\ \A j \in CallsOf(Steps[b]) :
                /\ CallsOf(Steps[a]) # {}
                /\ \A i \in CallsOf(Steps[a]) : i < j
                /\ Steps[a] \in {trace[i].by : i \in Events("write")}
          /\ RaisedBy(Steps[a]) # {} =>
                /\ CallsOf(Steps[b]) = {}
                /\ {i \in Events("write") : trace[i].by = Steps[b]} = {}
    /\ Events("raise") # {} => pc = "aborted"
    /\ pc = "aborted" => \A i \in 1..Len(stdout) : stdout[i] # "all_created"
    /\ (\E i \in 1..Len(stdout) : stdout[i] = "all_created") =>
          /\ pc = "done"
          /\ Events("raise") = {}
          /\ \A a \in 1..3 : WroteAll(Steps[a])
          /\ stdout = <<"banner", "rule", "created_ico", "created_icns", "created_png",
                        "rule", "all_created", "location">>

C8_Witness ==
    /\ pc = "aborted"
    /\ RaisedBy("create_ico") # {}
    /\ \E i \in Events("write") : trace[i].by = "create_ico"

StepOfName == [n \in Names |->
    IF n = "icon.ico" THEN "create_ico" ELSE IF n = "icon.icns" THEN "create_icns" ELSE "create_png"]

\* C9: in a run each of icon.ico, icon.icns, icon.png of the output directory
\* is written at most once and only by its own step, nothing else is written,
\* and in a run that completes each is written exactly once.
C9_WrittenOnceByOwner ==
    /\ \A i \in Events("write") :
          /\ trace[i].path[1] = output_dir
          /\ trace[i].path[2] \in Names
          /\ trace[i].by = StepOfName[trace[i].path[2]]
    /\ \A p \in Paths : Cardinality(WritesTo(p)) <= 1
    /\ pc = "done" => \A n \in Names : Cardinality(WritesTo(<<output_dir, n>>)) = 1

C9_Witness ==
    /\ pc = "done"
    /\ \A n \in Names : Cardinality(WritesTo(<<output_dir, n>>)) = 1

\* C10: one output directory is resolved before any file is written: the
\* argument when one is given (get_output_directory is then not called and
\* nothing else is created), the default 'assets' directory otherwise; the
\* chosen directory exists before the first write and all writes go into it.
C10_DirectoryResolvedFirst ==
    /\ Cardinality(Events("makedirs")) <= 1
    /\ \A i \in Events("makedirs") :
          trace[i].path[1] = (IF Len(argv) > 0 THEN argv[1] ELSE DefaultDir)
    /\ Len(argv) > 0 => CallsOf("get_output_directory") = {}
    /\ (Len(argv) = 0 /\ pc # "start") => Cardinality(CallsOf("get_output_directory")) = 1
    /\ pc \notin {"start", "aborted"} =>
          /\ output_dir = (IF Len(argv) > 0 THEN argv[1] ELSE DefaultDir)
          /\ output_dir \in dirs
    /\ \A i \in Events("write") :
          /\ \E j \in Events("makedirs") : j < i /\ trace[j].path[1] = trace[i].path[1]
          /\ trace[i].path[1] = output_dir
          /\ trace[i].path[1] = (IF Len(argv) > 0 THEN argv[1] ELSE DefaultDir)
          /\ output_dir \in dirs

C10_Witness ==
    /\ pc = "done"
    /\ Len(argv) > 0
    /\ argv[1] = "out"
    /\ Cardinality(Events("write")) = 3

=============================================================================
